---- MODULE Spec2Model ----
(***************************************************************************)
(* Model of dock_cli.py: name resolution (get_absolute_name), the          *)
(* de-duplication loop and the build loop of cli, group, the Namespace     *)
(* tree with its name_db registry, and the markdown rendering              *)
(* (generate_namespace and the per-kind generate methods).                 *)
(*                                                                         *)
(* A Python str is modelled as a sequence of atoms; the atoms are the      *)
(* texts ".", "__init__", "<locals>" and single letters, so that           *)
(* str.replace and str.split act on them exactly as on the characters.     *)
(***************************************************************************)
EXTENDS Naturals, Sequences, FiniteSets, TLC

\* Longest discovery queue that is explored.
MaxQueue == 4

\* Most segments of a module path or of a __qualname__ explored in SpecName.
MaxSegs == 3

DOT == "."
INIT == "__init__"
LOCALS == "<locals>"

-----------------------------------------------------------------------------
(* str helpers *)

StartsWith(s, pat) ==
    /\ Len(s) >= Len(pat)
    /\ SubSeq(s, 1, Len(pat)) = pat

EndsWith(s, pat) ==
    /\ Len(s) >= Len(pat)
    /\ SubSeq(s, Len(s) - Len(pat) + 1, Len(s)) = pat

\* s.replace(pat, '', 1): only the first match is dropped.
Replace_first(s, pat) ==
    IF \E i \in 1..Len(s) : StartsWith(SubSeq(s, i, Len(s)), pat)
    THEN LET i == CHOOSE j \in 1..Len(s) :
                      /\ StartsWith(SubSeq(s, j, Len(s)), pat)
                      /\ \A k \in 1..(j - 1) : ~StartsWith(SubSeq(s, k, Len(s)), pat)
         IN  SubSeq(s, 1, i - 1) \o SubSeq(s, i + Len(pat), Len(s))
    ELSE s

\* s.replace(pat, ''): one left-to-right scan, non-overlapping matches.
RECURSIVE Replace(_, _)
Replace(s, pat) ==
    IF s = <<>> THEN <<>>
    ELSE IF StartsWith(s, pat)
         THEN Replace(SubSeq(s, Len(pat) + 1, Len(s)), pat)
         ELSE <<Head(s)>> \o Replace(Tail(s), pat)

\* s.split('.'): the list of segments, '' splits to [''].
RECURSIVE Split(_)
Split(s) ==
    IF \A i \in 1..Len(s) : s[i] # DOT THEN <<s>>
    ELSE LET i == CHOOSE j \in 1..Len(s) :
                      /\ s[j] = DOT
                      /\ \A k \in 1..(j - 1) : s[k] # DOT
         IN  <<SubSeq(s, 1, i - 1)>> \o Split(SubSeq(s, i + 1, Len(s)))

-----------------------------------------------------------------------------
(* The discovered Python objects.  type is what isinstance tells group:   *)
(* "module" (ModuleType), "class" (type) or "function" (any other         *)
(* callable).  qualname is <<>> for an object without __qualname__;       *)
(* module is __module__, or __package__ for an object without it.         *)
(* ann is __annotations__ (name, type object or None); arguments,   *)
(* fields, sections and short are the entries of __dock__.                *)

Obj(type, name, module, qualname, ann, arguments, short, fields, sections, doc) ==
    [type |-> type, name |-> name, module |-> module, qualname |-> qualname,
     ann |-> ann, arguments |-> arguments, short |-> short, fields |-> fields,
     sections |-> sections, doc |-> doc]

P  == "P"   \* p/__init__.py
M  == "M"   \* p/p.py
C  == "C"   \* class p, defined in p/__init__.py
W  == "W"   \* class W, defined in p/__init__.py
WW == "WW"   \* class W nested in class W
F  == "F"   \* def f(x: W, y: p) -> None, defined in p/p.py
H  == "H"   \* def h(x), defined in p/__init__.py, no annotations
G  == "G"   \* def g(x) nested in the body of h
K  == "K"   \* def k(x) -> W, defined in p/__init__.py, x not annotated
J  == "J"   \* def j(x: None), defined in p/p.py

Objects == {P, M, C, W, WW, F, H, G, K, J}

\* An annotation of None (falsy)
None == "None"

Elem(o) ==
    CASE o = P  -> Obj("module", <<"p", DOT, INIT>>, <<"p">>, <<>>,
                       <<>>, <<>>, "", <<>>, <<>>, "doc")
      [] o = M  -> Obj("module", <<"p", DOT, "p">>, <<"p">>, <<>>,
                       <<>>, <<>>, "", <<>>, <<>>, "")
      [] o = C  -> Obj("class", <<"p">>, <<"p", DOT, INIT>>, <<"p">>,
                       <<>>, <<>>, "", <<>>, <<>>, "doc")
      [] o = W  -> Obj("class", <<"W">>, <<"p", DOT, INIT>>, <<"W">>,
                       <<>>, <<>>, "", <<<<"a", "d">>>>, <<>>, "")
      [] o = WW -> Obj("class", <<"W">>, <<"p", DOT, INIT>>, <<"W", DOT, "W">>,
                       <<>>, <<>>, "", <<>>, <<>>, "")
      [] o = F  -> Obj("function", <<"f">>, <<"p", DOT, "p">>, <<"f">>,
                       <<<<"x", W>>, <<"y", C>>, <<"return", None>>>>,
                       <<<<"x", "d">>>>, "s", <<>>, <<<<"t", "b">>>>, "doc")
      [] o = H  -> Obj("function", <<"h">>, <<"p", DOT, INIT>>, <<"h">>,
                       <<>>, <<<<"x", "d">>>>, "", <<>>, <<>>, "")
      [] o = G  -> Obj("function", <<"g">>, <<"p", DOT, INIT>>,
                       <<"h", DOT, LOCALS, DOT, "g">>,
                       <<>>, <<>>, "", <<>>, <<>>, "")
      [] o = K  -> Obj("function", <<"k">>, <<"p", DOT, INIT>>, <<"k">>,
                       <<<<"return", W>>>>, <<<<"x", "d">>>>, "", <<>>, <<>>, "")
      [] o = J  -> Obj("function", <<"j">>, <<"p", DOT, "p">>, <<"j">>,
                       <<<<"x", None>>>>, <<>>, "", <<>>, <<>>, "")

-----------------------------------------------------------------------------
VARIABLES
    pc,         \* position in cli (or in the SpecName harness)
    args,       \* cli's argument list
    exists,     \* whether Path(args[0]) exists
    stdout,     \* messages printed to the terminal
    queue,      \* the deque filled by introspect_modules
    reordered,  \* the deque left by the de-duplication loop
    objs,       \* the heap of Namespace/Package/Module/Class/Function objects
    name_db,    \* root.name_db
    sink,       \* what has been written to output_file
    nm_in,      \* SpecName: the object given to get_absolute_name
    nm_out      \* SpecName: the name it returned

vars == <<pc, args, exists, stdout, queue, reordered, objs, name_db, sink,
          nm_in, nm_out>>

-----------------------------------------------------------------------------
(* get_absolute_name *)

get_absolute_name(obj) ==
    LET name == obj.name
        full_name == Replace(obj.qualname, <<LOCALS, DOT>>)
        MODULE_ == obj.module
    IN  IF full_name = <<>>
        THEN Replace(name, <<DOT, INIT>>)
        ELSE Replace(MODULE_, <<DOT, INIT>>) \o <<DOT>> \o full_name

-----------------------------------------------------------------------------
(* dict helpers: a dict is the sequence of its (key, value) items in       *)
(* insertion order; assigning to a present key keeps the key's position.   *)

Keys(d) == {d[i][1] : i \in DOMAIN d}

DictGet(d, k) == d[CHOOSE i \in DOMAIN d : d[i][1] = k][2]

DictSet(d, k, v) ==
    IF k \in Keys(d)
    THEN [i \in DOMAIN d |-> IF d[i][1] = k THEN <<k, v>> ELSE d[i]]
    ELSE Append(d, <<k, v>>)

-----------------------------------------------------------------------------
(* The de-duplication loop of cli *)

Reverse(s) == [i \in DOMAIN s |-> s[Len(s) + 1 - i]]

RECURSIVE DedupLoop(_, _, _)
DedupLoop(rev, seen, acc) ==
    IF rev = <<>> THEN acc
    ELSE LET each == Head(rev)
             key == <<"str", Elem(each).name>>
         IN  IF key \notin seen
             THEN DedupLoop(Tail(rev), seen \cup {key}, <<each>> \o acc)
             ELSE DedupLoop(Tail(rev), seen, acc)

\* The loop over queue instead of reversed(queue).
Dedup_forward(q) == DedupLoop(q, {<<"obj", <<q[i]>>>> : i \in DOMAIN q}, <<>>)

\* seen starts as set(queue): the objects themselves, never equal to a str.
Dedup(q) == DedupLoop(Reverse(q), {<<"obj", <<q[i]>>>> : i \in DOMAIN q}, <<>>)

-----------------------------------------------------------------------------
(* Namespace, Package, Module, Class, Function and group *)

ROOT == 1

NewObject(cls, name, obj, absolute_name) ==
    [cls |-> cls, name |-> name, absolute_name |-> absolute_name,
     ref |-> obj, namespace |-> <<>>]

IsNamespace(o) == o.cls \in {"Namespace", "Package", "Module", "Class"}

\* The loop `namespace = namespace.get(each_name)`; 0 stands for the
\* KeyError (no such child) or AttributeError (a Function has no get).
RECURSIVE Walk(_, _, _)
Walk(heap, namespace, parts) ==
    IF parts = <<>> THEN namespace
    ELSE IF ~IsNamespace(heap[namespace]) THEN 0
    ELSE IF Head(parts) \notin Keys(heap[namespace].namespace) THEN 0
    ELSE Walk(heap, DictGet(heap[namespace].namespace, Head(parts)), Tail(parts))

TypeToRegister(o) ==
    IF Elem(o).type = "module" /\ EndsWith(Elem(o).name, <<INIT>>) THEN "Package"
    ELSE IF Elem(o).type = "module" THEN "Module"
    ELSE IF Elem(o).type = "class" THEN "Class"
    ELSE "Function"

\* group with root.register_type called before the walk to the parent.
group_registering_first(o, heap, db) ==
    LET fully_qualified_name == get_absolute_name(Elem(o))
        parts == Split(fully_qualified_name)
        first_name == parts[Len(parts)]
        namespace == Walk(heap, ROOT, SubSeq(parts, 1, Len(parts) - 1))
        new == Len(heap) + 1
        type_to_register ==
            NewObject(TypeToRegister(o), first_name, o, fully_qualified_name)
    IN  IF namespace = 0 \/ ~IsNamespace(heap[namespace])
        THEN [ok |-> FALSE, objs |-> heap,
              name_db |-> DictSet(db, fully_qualified_name, new)]
        ELSE [ok |-> TRUE,
              objs |-> Append(
                  [heap EXCEPT ![namespace].namespace =
                       DictSet(@, type_to_register.name, new)],
                  type_to_register),
              name_db |-> DictSet(db, fully_qualified_name, new)]

\* The state group(obj, root) leaves: ok is FALSE when it raised.
group(o, heap, db) ==
    LET fully_qualified_name == get_absolute_name(Elem(o))
        parts == Split(fully_qualified_name)
        first_name == parts[Len(parts)]
        namespace_parts == SubSeq(parts, 1, Len(parts) - 1)
        namespace == Walk(heap, ROOT, namespace_parts)
        new == Len(heap) + 1
        type_to_register ==
            NewObject(TypeToRegister(o), first_name, o, fully_qualified_name)
    IN  IF namespace = 0 \/ ~IsNamespace(heap[namespace])
        THEN [ok |-> FALSE, objs |-> heap, name_db |-> db]
        ELSE [ok |-> TRUE,
              objs |-> Append(
                  [heap EXCEPT ![namespace].namespace =
                       DictSet(@, type_to_register.name, new)],
                  type_to_register),
              name_db |-> DictSet(db, fully_qualified_name, new)]

-----------------------------------------------------------------------------
(* Rendering.  A printed line is kept as a record: t is what the line is,  *)
(* id the object whose generate printed it, kind and q the two parts of an *)
(* anchor #<kind>-<q> (or the plain type text in q), arg the label.        *)

Line(t, id, kind, q, arg) == [t |-> t, id |-> id, kind |-> kind, q |-> q, arg |-> arg]

\* What a call printed, and whether it returned (ok) or raised.
Printed(out) == [out |-> out, ok |-> TRUE]
Raised(out) == [out |-> out, ok |-> FALSE]

If(c, s) == IF c THEN s ELSE <<>>

\* header(): the heading text names get_absolute_name(self.ref)
Header(id) == Line("header", id, objs[id].cls, get_absolute_name(Elem(objs[id].ref)), "")

Doc(id) == If(Elem(objs[id].ref).doc # "", <<Line("doc", id, "", <<>>, "")>>)

PackageGenerate(id) == Printed(<<Header(id)>> \o Doc(id))

ModuleGenerate(id) ==
    LET ns == objs[id].namespace
    IN  Printed(<<Header(id)>> \o Doc(id) \o
                [i \in DOMAIN ns |->
                    LET obj == objs[ns[i][2]]
                    IN  Line("interlink", id, obj.cls, obj.absolute_name, obj.name)])

ClassGenerate(id) ==
    LET fields == Elem(objs[id].ref).fields
    IN  Printed(<<Header(id)>> \o
                If(fields # <<>>,
                   <<Line("fields", id, "", <<>>, "")>> \o
                   [i \in DOMAIN fields |-> Line("field", id, "", <<>>, fields[i][1])]) \o
                Doc(id))

\* output = {k: [get_absolute_name(v) if v else '?', ''] for k, v in ann.items()}
TypeText(v) == IF v = None THEN <<"?">> ELSE get_absolute_name(Elem(v))

\* Every argument type written as a link to a Class section.
ArgumentLine_always_linked(id, argument, type_, db) ==
    Line("interlink", id, "Class", type_, argument)

ArgumentLine(id, argument, type_, db) ==
    IF type_ \in Keys(db)
    THEN Line("interlink", id, objs[DictGet(db, type_)].cls, type_, argument)
    ELSE Line("plain", id, "", type_, argument)

FunctionGenerate(id, db) ==
    LET ref == Elem(objs[id].ref)
        ann == ref.ann
        top == <<Header(id)>> \o If(ref.short # "", <<Line("short", id, "", <<>>, "")>>)
        described == {ref.arguments[i][1] : i \in DOMAIN ref.arguments}
        args_ == SelectSeq(ann, LAMBDA kv : kv[1] # "return")
        rets == SelectSeq(ann, LAMBDA kv : kv[1] = "return")
        block ==
            <<Line("arguments", id, "", <<>>, "")>> \o
            [i \in DOMAIN args_ |->
                ArgumentLine(id, args_[i][1], TypeText(args_[i][2]), db)] \o
            [i \in DOMAIN rets |-> Line("return", id, "", TypeText(rets[i][2]), "return")]
        sections == [i \in DOMAIN ref.sections |->
                        Line("section", id, "", <<>>, ref.sections[i][1])]
    IN  IF ann # <<>> /\ ~(described \subseteq Keys(ann))
        THEN Raised(top \o <<Line("arguments", id, "", <<>>, "")>>)  \* KeyError
        ELSE Printed(top \o If(ann # <<>>, block) \o Doc(id) \o sections \o
                     <<Line("source", id, "", <<>>, "")>>)

Generate(id, db) ==
    CASE objs[id].cls = "Package" -> PackageGenerate(id)
      [] objs[id].cls = "Module" -> ModuleGenerate(id)
      [] objs[id].cls = "Class" -> ClassGenerate(id)
      [] objs[id].cls = "Function" -> FunctionGenerate(id, db)

Values(d) == [i \in DOMAIN d |-> d[i][2]]

get_funcs(id) ==
    SelectSeq(Values(objs[id].namespace), LAMBDA c : objs[c].cls = "Function")

get_namespaces(id) ==
    SelectSeq(Values(objs[id].namespace), LAMBDA c : IsNamespace(objs[c]))

\* r, then (when r returned) what next prints
Then(r, next) == IF r.ok THEN [out |-> r.out \o next.out, ok |-> next.ok] ELSE r

RECURSIVE generate_namespace(_, _), GenerateFuncs(_, _), GenerateItems(_, _)
GenerateFuncs(funcs, db) ==
    IF funcs = <<>> THEN Printed(<<>>)
    ELSE Then(Generate(Head(funcs), db), GenerateFuncs(Tail(funcs), db))

GenerateItems(items, db) ==
    IF items = <<>> THEN Printed(<<>>)
    ELSE Then(Then(Generate(Head(items), db), generate_namespace(Head(items), db)),
              GenerateItems(Tail(items), db))

\* The namespace children written before the Function children.
generate_namespace_items_first(namespace, db) ==
    Then(GenerateItems(get_namespaces(namespace), db),
         GenerateFuncs(get_funcs(namespace), db))

generate_namespace(namespace, db) ==
    Then(GenerateFuncs(get_funcs(namespace), db),
         GenerateItems(get_namespaces(namespace), db))

-----------------------------------------------------------------------------
(* cli *)

SHOW == "--show"
PATH == "p"

ArgLists == {<<>>, <<SHOW>>, <<PATH>>, <<PATH, SHOW>>}

\* The sequences over S of length at most n
RECURSIVE SeqsUpTo(_, _)
SeqsUpTo(S, n) ==
    IF n = 0 THEN {<<>>}
    ELSE LET shorter == SeqsUpTo(S, n - 1)
         IN  shorter \cup {Append(q, x) : q \in shorter, x \in S}

\* introspect_modules appends a module before what it finds in it, and each
\* module once: a non-empty queue starts with a module and no module is in it
\* twice.  Classes and functions can be found again where they are imported.
Queues ==
    {q \in SeqsUpTo(Objects, MaxQueue) :
        /\ q # <<>> => Elem(q[1]).type = "module"
        /\ \A i, j \in DOMAIN q :
               (i # j /\ Elem(q[i]).type = "module") => q[i] # q[j]}

NoObj == Obj("", <<>>, <<>>, <<>>, <<>>, <<>>, "", <<>>, <<>>, "")

Init ==
    /\ pc = "start"
    /\ args \in ArgLists
    /\ exists \in BOOLEAN
    /\ stdout = <<>>
    /\ queue = <<>>
    /\ reordered = <<>>
    /\ objs = <<>>
    /\ name_db = <<>>
    /\ sink = <<>>
    /\ nm_in = NoObj
    /\ nm_out = <<>>

\* not args or args[0] == '--show'
NoPath == IF args = <<>> THEN TRUE ELSE args[1] = SHOW

only_show == \E i \in DOMAIN args : args[i] = SHOW

\* The file that is opened once the tree is built
OutputFile == IF only_show THEN "NamedTemporaryFile" ELSE "p.md.html"

Usage ==
    /\ pc = "start"
    /\ NoPath
    /\ stdout' = stdout \o <<"Dock - Python documentation generator", "Usage">>
    /\ pc' = "quit"
    /\ UNCHANGED <<args, exists, queue, reordered, objs, name_db, sink, nm_in, nm_out>>

Missing ==
    /\ pc = "start"
    /\ ~NoPath
    /\ ~exists
    /\ stdout' = Append(stdout, "doesn't exist")
    /\ pc' = "quit"
    /\ UNCHANGED <<args, exists, queue, reordered, objs, name_db, sink, nm_in, nm_out>>

\* get_modules, introspect_modules and root = Namespace('root', None, '')
Discover ==
    /\ pc = "start"
    /\ ~NoPath
    /\ exists
    /\ queue' \in Queues
    /\ objs' = <<NewObject("Namespace", <<"root">>, None, <<>>)>>
    /\ pc' = "dedup"
    /\ UNCHANGED <<args, exists, stdout, reordered, name_db, sink, nm_in, nm_out>>

Deduplicate ==
    /\ pc = "dedup"
    /\ reordered' = Dedup(queue)
    /\ pc' = "build"
    /\ UNCHANGED <<args, exists, stdout, queue, objs, name_db, sink, nm_in, nm_out>>

\* item = reordered.popleft(); group(item, root)
Group ==
    /\ pc = "build"
    /\ reordered # <<>>
    /\ LET r == group(Head(reordered), objs, name_db)
       IN  /\ objs' = r.objs
           /\ name_db' = r.name_db
           /\ pc' = IF r.ok THEN "build" ELSE "fatal"
    /\ reordered' = Tail(reordered)
    /\ UNCHANGED <<args, exists, stdout, queue, sink, nm_in, nm_out>>

\* The header written as soon as the build loop starts.
WriteHeader_early ==
    /\ pc = "build"
    /\ sink = <<>> \/ reordered = <<>>
    /\ sink' = IF sink = <<>>
               THEN Append(sink, Line("MARKDEEP_HEADER", ROOT, OutputFile, <<>>, ""))
               ELSE sink
    /\ pc' = IF reordered = <<>> THEN "generate" ELSE "build"
    /\ UNCHANGED <<args, exists, stdout, queue, reordered, objs, name_db, nm_in, nm_out>>

WriteHeader ==
    /\ pc = "build"
    /\ reordered = <<>>
    /\ sink' = Append(sink, Line("MARKDEEP_HEADER", ROOT, OutputFile, <<>>, ""))
    /\ pc' = "generate"
    /\ UNCHANGED <<args, exists, stdout, queue, reordered, objs, name_db, nm_in, nm_out>>

GenerateNamespace ==
    /\ pc = "generate"
    /\ LET r == generate_namespace(ROOT, name_db)
       IN  /\ sink' = sink \o r.out
           /\ pc' = IF r.ok THEN "footer" ELSE "fatal"
    /\ UNCHANGED <<args, exists, stdout, queue, reordered, objs, name_db, nm_in, nm_out>>

WriteFooter ==
    /\ pc = "footer"
    /\ sink' = Append(sink, Line("MARKDEEP_FOOTER", ROOT, "", <<>>, ""))
    /\ pc' = "done"
    /\ UNCHANGED <<args, exists, stdout, queue, reordered, objs, name_db, nm_in, nm_out>>

Next ==
    \/ Usage
    \/ Missing
    \/ Discover
    \/ Deduplicate
    \/ Group
    \/ WriteHeader
    \/ GenerateNamespace
    \/ WriteFooter

Spec == Init /\ [][Next]_vars

-----------------------------------------------------------------------------
(* get_absolute_name on its own: every well-formed module path and         *)
(* __qualname__ of up to MaxSegs segments.                                 *)

Join(segs) ==
    LET RECURSIVE Dotted(_)
        Dotted(ss) == IF Len(ss) = 1 THEN ss[1]
                      ELSE ss[1] \o <<DOT>> \o Dotted(Tail(ss))
    IN  Dotted(segs)

\* file and directory names: a, __init__, __init__a
ModuleSegments == {<<"a">>, <<INIT>>, <<INIT, "a">>}

\* names of classes and functions, and the marker of a function body
ScopeSegments == {<<"a">>, <<INIT>>, <<LOCALS>>}

ModulePaths ==
    {Join(ss) : ss \in SeqsUpTo(ModuleSegments, MaxSegs) \ {<<>>}}

\* <locals> follows the name of a function and precedes what it defines
WellFormedScope(ss) ==
    /\ ss # <<>>
    /\ ss[1] # <<LOCALS>>
    /\ ss[Len(ss)] # <<LOCALS>>
    /\ \A i \in 1..(Len(ss) - 1) : ~(ss[i] = <<LOCALS>> /\ ss[i + 1] = <<LOCALS>>)

ScopePaths ==
    {Join(ss) : ss \in {t \in SeqsUpTo(ScopeSegments, MaxSegs) : WellFormedScope(t)}}

NameInputs ==
    {Obj("module", n, <<>>, <<>>, <<>>, <<>>, "", <<>>, <<>>, "") : n \in ModulePaths}
    \cup
    {Obj(t, <<qn[Len(qn)]>>, m, qn, <<>>, <<>>, "", <<>>, <<>>, "") :
        t \in {"class", "function"}, m \in ModulePaths, qn \in ScopePaths}

InitName ==
    /\ pc = "resolve"
    /\ nm_in \in NameInputs
    /\ nm_out = <<>>
    /\ args = <<>>
    /\ exists = FALSE
    /\ stdout = <<>>
    /\ queue = <<>>
    /\ reordered = <<>>
    /\ objs = <<>>
    /\ name_db = <<>>
    /\ sink = <<>>

Resolve ==
    /\ pc = "resolve"
    /\ nm_out' = get_absolute_name(nm_in)
    /\ pc' = "resolved"
    /\ UNCHANGED <<args, exists, stdout, queue, reordered, objs, name_db, sink, nm_in>>

NextName == Resolve

SpecName == InitName /\ [][NextName]_vars

-----------------------------------------------------------------------------
(* Properties *)

Range(f) == {f[i] : i \in DOMAIN f}

QName(o) == get_absolute_name(Elem(o))

\* The last segment of the qualified name: the name without its qualification.
ShortName(o) == LET parts == Split(QName(o)) IN parts[Len(parts)]

\* __name__
DeclaredName(o) == Elem(o).name

\* The positions of q that are the last occurrence of their key.
LastOccurrences(Key(_), q) ==
    {i \in DOMAIN q : \A j \in DOMAIN q : j > i => Key(q[j]) # Key(q[i])}

\* r keeps one element of q per key, the one closest to the end of q, and
\* keeps the order of q.
KeepsLastPerKey(Key(_), q, r) ==
    LET keep == LastOccurrences(Key, q)
        Nth(k) == CHOOSE i \in keep : Cardinality({j \in keep : j <= i}) = k
    IN  /\ \A o \in Range(q) :
              Cardinality({k \in DOMAIN r : Key(r[k]) = Key(o)}) = 1
        /\ Len(r) = Cardinality(keep)
        /\ \A k \in DOMAIN r : r[k] = q[Nth(k)]

\* C2 as stated: the de-duplication loop leaves exactly one element per short
\* (non-qualified) name, the occurrence closest to the end of the discovery
\* order, in discovery order.
C2_OnePerShortName ==
    [][pc = "dedup" => KeepsLastPerKey(ShortName, queue, reordered')]_vars

\* C2 amended: the de-duplication loop leaves exactly one element per declared
\* name (__name__, which for a module or package is its whole dotted import
\* name), the occurrence closest to the end of the discovery order, in
\* discovery order.
C2_OnePerDeclaredName ==
    [][pc = "dedup" => KeepsLastPerKey(DeclaredName, queue, reordered')]_vars

\* pkg.mod.Widget-like duplicates were discovered and one of them was dropped;
\* two modules with the same last segment both survived.
C2_Witness ==
    /\ pc = "build"
    /\ Len(objs) = 1
    /\ queue = <<P, W, M, WW>>
    /\ reordered = <<P, M, WW>>

\* A chain of namespace nodes from the root along the parent segments of o's
\* qualified name.
ParentPathExists(o) ==
    LET parts == Split(QName(o))
        k == Len(parts) - 1
    IN  \E f \in [1..(k + 1) -> DOMAIN objs] :
            /\ f[1] = ROOT
            /\ \A i \in 1..(k + 1) : IsNamespace(objs[f[i]])
            /\ \A i \in 1..k : <<parts[i], f[i + 1]>> \in Range(objs[f[i]].namespace)

\* C3: a group call for an element one of whose parent segments is not a
\* namespace node of the tree fails and leaves the tree and the registry as
\* they were.
C3_InsertAllOrNothing ==
    [][(pc = "build" /\ reordered # <<>> /\ ~ParentPathExists(Head(reordered)))
        => (pc' = "fatal" /\ objs' = objs /\ name_db' = name_db)]_vars

\* g, nested in h, was given to group when p.h was a Function leaf: group
\* failed after two successful inserts.
C3_Witness ==
    /\ pc = "fatal"
    /\ sink = <<>>
    /\ queue = <<P, H, G>>
    /\ Len(objs) = 3
    /\ Len(name_db) = 2

\* C4: every interlink written has the anchor <Kind>-<q> with q a key of the
\* registry and Kind the class of the object registered under q, and an
\* argument type is written as an interlink exactly when its qualified name is
\* a key of the registry.
C4_InterlinkSound ==
    \A i \in DOMAIN sink :
        /\ sink[i].t = "interlink" =>
              /\ sink[i].q \in Keys(name_db)
              /\ sink[i].kind = objs[DictGet(name_db, sink[i].q)].cls
        /\ sink[i].t = "plain" => sink[i].q \notin Keys(name_db)

\* A Module section listed a child, and a Function section linked one
\* argument type and wrote another as plain text.
C4_Witness ==
    /\ pc = "done"
    /\ \E i, j, k \in DOMAIN sink :
          /\ sink[i].t = "interlink" /\ objs[sink[i].id].cls = "Module"
          /\ sink[j].t = "interlink" /\ objs[sink[j].id].cls = "Function"
          /\ sink[k].t = "plain" /\ sink[k].q # <<"?">>

\* C8: nothing is written to the output file before every de-duplicated
\* element has been inserted; a failed insert, the usage exit and the
\* missing-path exit leave the output file unwritten.
C8_OutputAfterBuild ==
    /\ sink # <<>> =>
          /\ reordered = <<>>
          /\ \A o \in Range(Dedup(queue)) : \E id \in DOMAIN objs : objs[id].ref = o
    /\ pc = "quit" => sink = <<>>
    /\ (pc = "fatal" /\ Len(objs) < 1 + Len(Dedup(queue))) => sink = <<>>

\* A run wrote header, body and footer after inserting three elements.
C8_Witness ==
    /\ pc = "done"
    /\ Len(objs) = 4
    /\ Len(sink) > 2

\* C1: for every qualified name q registered, walking the tree from the root
\* through the segments of q reaches the object registered under q.
C1_TreeRegistryConsistent ==
    \A i \in DOMAIN name_db :
        Walk(objs, ROOT, Split(name_db[i][1])) = name_db[i][2]

\* C7: no group call registers a qualified name that is already a key of the
\* registry or replaces a child of a namespace node, and rendering leaves the
\* registry as it is.
C7_RegisteredOnce ==
    [][/\ \A i \in DOMAIN name_db : name_db'[i] = name_db[i]
       /\ \A id \in DOMAIN objs :
              \A i \in DOMAIN objs[id].namespace :
                  objs'[id].namespace[i] = objs[id].namespace[i]
       /\ pc \in {"generate", "footer"} => name_db' = name_db]_vars

\* The sections written, in order, as the objects they are about.
Sections == SelectSeq(sink, LAMBDA l : l.t = "header")

Pos(id) == CHOOSE i \in DOMAIN Sections : Sections[i].id = id

Written(id) == \E i \in DOMAIN Sections : Sections[i].id = id

Children(id) == Range(Values(objs[id].namespace))

RECURSIVE Descendants(_)
Descendants(id) ==
    Children(id) \cup UNION {Descendants(c) : c \in Children(id)}

\* The place of child c in the child mapping of n
Index(n, c) == CHOOSE i \in DOMAIN objs[n].namespace : objs[n].namespace[i][2] = c

\* a is to be written before its sibling b
Before(n, a, b) ==
    \/ objs[a].cls = "Function" /\ IsNamespace(objs[b])
    \/ /\ objs[a].cls = "Function" <=> objs[b].cls = "Function"
       /\ Index(n, a) < Index(n, b)

C6_RenderingNeverFails ==
    /\ pc = "fatal" => sink = <<>>
    /\ pc \in {"footer", "done"} =>
          \A id \in Descendants(ROOT) :
              objs[id].cls = "Function" =>
                  \A a \in Range(Elem(objs[id].ref).arguments) :
                      a[1] \notin Keys(Elem(objs[id].ref).ann) =>
                          \E i \in DOMAIN sink :
                              /\ sink[i].id = id
                              /\ sink[i].arg = a[1]
                              /\ sink[i].q = <<"?">>

IsPrefix(s, t) == Len(s) <= Len(t) /\ SubSeq(t, 1, Len(s)) = s

\* Every ancestor namespace of every element is discovered before it.
OrderingInvariant(q) ==
    \A i \in DOMAIN q :
        LET parts == Split(QName(q[i]))
        IN  \A k \in 1..(Len(parts) - 1) :
                \E j \in 1..(i - 1) :
                    /\ Elem(q[j]).type # "function"
                    /\ QName(q[j]) = Join(SubSeq(parts, 1, k))

\* C10: when discovery lists every ancestor namespace before an element, no
\* group call on the de-duplicated list fails.
C10_DedupKeepsParents ==
    (OrderingInvariant(queue) /\ pc = "fatal") => sink # <<>>

(* get_absolute_name *)

HasInitAt(s, i) == i < Len(s) /\ s[i] = DOT /\ s[i + 1] = INIT

\* s without the atoms at the positions in drop
Without(s, drop) ==
    LET keep == DOMAIN s \ drop
        Nth(k) == CHOOSE i \in keep : Cardinality({j \in keep : j <= i}) = k
    IN  [k \in 1..Cardinality(keep) |-> s[Nth(k)]]

\* s with every occurrence of the text .__init__ deleted
InitDeleted(s) ==
    Without(s, UNION {{i, i + 1} : i \in {j \in DOMAIN s : HasInitAt(s, j)}})

\* s with every occurrence of the text <locals>. deleted
LocalsDeleted(s) ==
    Without(s, UNION {{i, i + 1} :
                        i \in {j \in DOMAIN s : j < Len(s) /\ s[j] = LOCALS /\ s[j + 1] = DOT}})

\* C9 as stated: the name is the declared name, or module and owning-scope
\* path, without initializer suffix and local-scope markers, so that no
\* segment of a qualified name is __init__ or <locals>.
C9_NoInitNoLocalsSegment ==
    pc = "resolved" =>
        \A seg \in Range(Split(nm_out)) : seg # <<INIT>> /\ seg # <<LOCALS>>

\* C9 amended: for an element without owning-scope path (a module or package)
\* the name is its declared name with every occurrence of the text .__init__
\* deleted; for any other element it is the enclosing module's name with every
\* occurrence of .__init__ deleted, a dot, and the owning-scope path with
\* every <locals>. deleted.  No qualified name has a <locals> segment; an
\* __init__ segment remains where the scope path has one (a method named
\* __init__) or the module path starts with one.
C9_NameCanonical ==
    pc = "resolved" =>
        LET scope == LocalsDeleted(nm_in.qualname)
            modpart == IF nm_in.qualname = <<>> THEN InitDeleted(nm_in.name)
                       ELSE InitDeleted(nm_in.module)
        IN  /\ nm_out = IF nm_in.qualname = <<>> THEN modpart
                        ELSE modpart \o <<DOT>> \o scope
            /\ LOCALS \notin Range(nm_out)

\* A method __init__ of a class nested in a function of a/__init__.py
C9_Witness ==
    /\ pc = "resolved"
    /\ nm_in.module = <<"a", DOT, INIT>>
    /\ nm_in.qualname = <<"a", DOT, LOCALS, DOT, INIT>>
    /\ nm_out = <<"a", DOT, "a", DOT, INIT>>

====
